---- MODULE Spec2Model ----
(***************************************************************************)
(* Blade-element momentum rotor model (rotor.py, airfoil.py, blade.py),    *)
(* the vehicle force model (vehicle.py), the RK4 integrator (rk4.py) and   *)
(* the simulation driver (sim.py).                                         *)
(*                                                                         *)
(* Numbers.  Every floating-point quantity of the program is a fixed-point *)
(* integer with two decimals: the integer n stands for the real n/SC.      *)
(* Products and quotients round to the nearest representable value, as     *)
(* floating point does, only coarser.  Counters (strip index, iteration    *)
(* count, number of blades, number of tables) are plain integers.  The     *)
(* libm functions the strip aerodynamics call (sqrt, atan, sin, cos, acos, *)
(* exp) are computed in fixed point by the approximations given with them. *)
(***************************************************************************)
EXTENDS Integers, Sequences, FiniteSets, TLC

VARIABLES
    airfoil,      \* Airfoil: _alphas, _cls, _cds (one entry per table)
    blade,        \* Blade: _radial, _chord, _twist
    rotor,        \* Rotor: per-strip arrays and aggregates
    vehicle,      \* Vehicle: parameters, _Vvehicle and the force breakdown
    integrator,   \* RK4: t, y = <<position, speed>>, dt
    sim,          \* sim.py __main__: globals, loop index and recorded series
    trace         \* observations of the last operation (calls, warnings, aborts)

vars == <<airfoil, blade, rotor, vehicle, integrator, sim, trace>>

\* An attribute that may be None holds None or Some(v); Val reads v.
None == <<>>

Some(v) == <<v>>

Val(o) == o[1]

\* LET x == e IN Op(x), with e evaluated once.
With(e, Op(_)) == CHOOSE y \in {Op(x) : x \in {e}} : TRUE

\* exc: no exception was raised
NoExc == "none"

\* Fixed-point scale (two decimals): n stands for n/SC.
SC == 10 * 10

\* math.pi
pi == 314

----------------------------------------------------------------------------
(* Fixed-point arithmetic *)

Abs(x) == IF x < 0 THEN -x ELSE x

Sgn(x) == IF x < 0 THEN -1 ELSE IF x > 0 THEN 1 ELSE 0

\* n/d for integers, d > 0, rounded to the nearest integer.
RoundDiv(n, d) == (n + d \div 2) \div d

\* a*b of two fixed-point numbers.
FMul(a, b) == RoundDiv(a * b, SC)

\* a/b of two fixed-point numbers, b # 0.
FDiv(a, b) == IF b > 0 THEN RoundDiv(a * SC, b) ELSE RoundDiv(-(a * SC), -b)

\* a/n of a fixed-point number by an integer count, n # 0.
FDivInt(a, n) == IF n > 0 THEN RoundDiv(a, n) ELSE RoundDiv(-a, -n)

\* Largest k with k*k <= n, by bisection on lo <= k < hi.
RECURSIVE ISqrtIn(_, _, _)
ISqrtIn(n, lo, hi) ==
    IF hi - lo <= 1 THEN lo
    ELSE LET mid == (lo + hi) \div 2
         IN  IF mid * mid <= n THEN ISqrtIn(n, mid, hi) ELSE ISqrtIn(n, lo, mid)

\* math.sqrt of a fixed-point number x >= 0: sqrt(x/SC)*SC = sqrt(x*SC).
sqrt(x) == ISqrtIn(x * SC, 0, 46340)

\* math.atan followed by math.degrees, for a fixed-point ratio x:
\* atan(x) ~ 45x + 15.64 x (1-|x|) degrees for |x| <= 1 and
\* sgn(x)*90 - atan(1/x) for |x| > 1 (error below 0.25 degrees).
atanUnit(x) == FMul(4500, x) + FMul(FMul(1564, x), SC - Abs(x))

atanDegrees(x) ==
    IF Abs(x) <= SC THEN atanUnit(x)
    ELSE Sgn(x) * 9000 - atanUnit(FDiv(SC, x))

\* math.sin(phi) and math.cos(phi) for phi = atan(x), x a fixed-point ratio:
\* x/sqrt(1+x^2) and 1/sqrt(1+x^2).
sinAtan(x) == FDiv(x, sqrt(SC + FMul(x, x)))

cosAtan(x) == FDiv(SC, sqrt(SC + FMul(x, x)))

\* math.exp(-f) for fixed-point f >= 0: 1/(1 + f + f^2/2 + f^3/6), cut to 0
\* beyond f = 8.
expNeg(f) ==
    IF f >= 8 * SC THEN 0
    ELSE LET f2 == FMul(f, f)
             f3 == FMul(f2, f)
         IN  FDiv(SC, SC + f + FDivInt(f2, 2) + FDivInt(f3, 6))

\* math.acos(x) in radians for fixed-point 0 <= x <= 1:
\* sqrt(1-x) * (1.5707 - 0.2121 x + 0.0743 x^2 - 0.0187 x^3).
acos(x) ==
    LET x2 == FMul(x, x)
        x3 == FMul(x2, x)
        poly == 157 - FMul(21, x) + FMul(7, x2) - FMul(2, x3)
    IN  FMul(sqrt(SC - x), poly)

\* sum of a sequence of fixed-point numbers (Python's sum, numpy's np.sum)
RECURSIVE Sum(_)
Sum(s) == IF s = <<>> THEN 0 ELSE Head(s) + Sum(Tail(s))

\* n * [v]
Repeat(n, v) == [k \in 1..n |-> v]

----------------------------------------------------------------------------
(* np.interp(x, xp, fp): piecewise-linear lookup over ascending xp, holding *)
(* the end values outside [xp[1], xp[Len]].                                 *)

interp(x, xp, fp) ==
    IF x <= xp[1] THEN fp[1]
    ELSE IF x >= xp[Len(xp)] THEN fp[Len(xp)]
    ELSE LET j == CHOOSE k \in 1..(Len(xp) - 1) : xp[k] <= x /\ x < xp[k + 1]
             slope == FDiv(fp[j + 1] - fp[j], xp[j + 1] - xp[j])
         IN  FMul(slope, x - xp[j]) + fp[j]

----------------------------------------------------------------------------
(* airfoil.py *)

\* Airfoil.__init__
AirfoilInit == [alphas |-> None, cls |-> None, cds |-> None]

\* Airfoil.readTables: one (alphas, cls, cds) entry per table read.
readTables(tables) ==
    [alphas |-> [i \in 1..Len(tables) |-> tables[i].alphas],
     cls    |-> [i \in 1..Len(tables) |-> tables[i].cls],
     cds    |-> [i \in 1..Len(tables) |-> tables[i].cds]]

\* Airfoil.readClCdTables: a Cl table and a Cd table read separately; the
\* one with fewer rows (the Cl table on a tie) is resampled onto the other's
\* angles, giving a single table.
readClCdTables(clt, cdt) ==
    IF Len(clt.alphas) > Len(cdt.alphas)
    THEN [alphas |-> <<clt.alphas>>,
          cls |-> <<clt.cls>>,
          cds |-> <<[i \in 1..Len(clt.alphas) |->
                        interp(clt.alphas[i], cdt.alphas, cdt.cds)]>>]
    ELSE [alphas |-> <<cdt.alphas>>,
          cls |-> <<[i \in 1..Len(cdt.alphas) |->
                        interp(cdt.alphas[i], clt.alphas, clt.cls)]>>,
          cds |-> <<cdt.cds>>]

\* Cl with the division by the number of tables left out: the sum, not the
\* mean, of the tables' values.
ClSummed(af, alpha) ==
    Sum([i \in 1..Len(af.alphas) |-> interp(alpha, af.alphas[i], af.cls[i])])

\* Airfoil.Cl: each table interpolated on its own, then the mean.
Cl(af, alpha) ==
    LET ntables == Len(af.alphas)
        clvals == [i \in 1..ntables |-> interp(alpha, af.alphas[i], af.cls[i])]
    IN  FDivInt(Sum(clvals), ntables)

\* Airfoil.Cd
Cd(af, alpha) ==
    LET ntables == Len(af.alphas)
        cdvals == [i \in 1..ntables |-> interp(alpha, af.alphas[i], af.cds[i])]
    IN  FDivInt(Sum(cdvals), ntables)

----------------------------------------------------------------------------
(* blade.py *)

innerRadius(bl) == bl.radial[1]

outerRadius(bl) == bl.radial[Len(bl.radial)]

chord(bl, r) == interp(r, bl.radial, bl.chord)

twist(bl, r) == interp(r, bl.radial, bl.twist)

----------------------------------------------------------------------------
(* rotor.py *)

\* Rotor.__init__
RotorInit(nblades) ==
    [nblades |-> nblades,
     rstrip |-> <<>>, chordstrip |-> <<>>, twiststrip |-> <<>>, dR |-> None,
     inflow |-> <<>>, alpha |-> <<>>, cl |-> <<>>, cd |-> <<>>,
     dT |-> <<>>, dP |-> <<>>,
     thrust |-> None, power |-> None, CT |-> None, CP |-> None]

\* The loop of Rotor.discretize: strips k..nstrips appended to the three
\* geometry lists (strip k is Python's strip k-1).
RECURSIVE discretizeLoop(_, _, _, _)
discretizeLoop(rot, bl, k, nstrips) ==
    IF k > nstrips THEN rot
    ELSE LET r == innerRadius(bl) + FMul((k - 1) * SC + 50, Val(rot.dR))
         IN  discretizeLoop(
                 [rot EXCEPT !.rstrip = Append(@, r),
                             !.chordstrip = Append(@, chord(bl, r)),
                             !.twiststrip = Append(@, twist(bl, r))],
                 bl, k + 1, nstrips)

\* Rotor.discretize(nstrips): the rotor it leaves and how it ended.
\* _chordstrip and _twiststrip are emptied first, _rstrip is not; the
\* division by nstrips = 0 raises before anything else is written.
discretize(rot, bl, nstrips) ==
    LET cleared == [rot EXCEPT !.chordstrip = <<>>, !.twiststrip = <<>>]
    IN  IF nstrips = 0
        THEN [rotor |-> cleared, exc |-> "ZeroDivisionError"]
        ELSE LET withdR == [cleared EXCEPT
                               !.dR = Some(FDivInt(outerRadius(bl) - innerRadius(bl), nstrips))]
                 filled == discretizeLoop(withdR, bl, 1, nstrips)
             IN  [rotor |-> [filled EXCEPT
                                !.inflow = Repeat(nstrips, 0),
                                !.alpha = Repeat(nstrips, 0),
                                !.cl = Repeat(nstrips, 0),
                                !.cd = Repeat(nstrips, 0),
                                !.dT = Repeat(nstrips, 0),
                                !.dP = Repeat(nstrips, 0)],
                  exc |-> NoExc]

\* rpm*1./60.*2.*pi
omega(rpm) == FMul(FMul(FDiv(rpm, 60 * SC), 2 * SC), pi)

\* Prandtl tip loss factor of one pass, for Up = V + vi and phi = atan(x).
\* A denominator r*sin(phi) that underflows to 0 gives f = +inf, exp(-f) = 0.
tipLoss(b, Ro, r, Up, x) ==
    IF Up > 0
    THEN LET den == FMul(r, sinAtan(x))
             e == IF den = 0 THEN 0
                  ELSE expNeg(FDiv(FMul(50 * b, Ro - r), den))
         IN  FMul(FDiv(2 * SC, pi), acos(e))
    ELSE SC

\* Strip aerodynamics, tip loss and annular thrust and power of one pass of
\* the while loop of Rotor.calc, for strip k with inflow estimate vi.
stripForces(c, k, vi) ==
    LET rot == c.rot
        r == rot.rstrip[k]
        Ut == FMul(c.om, r)
        Up == c.V + vi
        Usquare == FMul(Ut, Ut) + FMul(Up, Up)
        x == FDiv(Up, Ut)
        q == FMul(FMul(FMul(50, c.rho), Usquare), rot.chordstrip[k])
        bFt == rot.nblades * tipLoss(rot.nblades, c.Ro, r, Up, x)
        cosphi == cosAtan(x)
        sinphi == sinAtan(x)
    IN  With(c.theta0 + rot.twiststrip[k] - atanDegrees(x), LAMBDA alpha :
        With(<<Cl(c.af, alpha), Cd(c.af, alpha)>>, LAMBDA co :
        With(<<FMul(q, co[1]), FMul(q, co[2])>>, LAMBDA LD :
            [alpha |-> alpha, cl |-> co[1], cd |-> co[2],
             dT |-> FMul(FMul(bFt, Val(rot.dR)),
                         FMul(LD[1], cosphi) - FMul(LD[2], sinphi)),
             dP |-> FMul(FMul(FMul(bFt, Ut), Val(rot.dR)),
                         FMul(LD[2], cosphi) + FMul(LD[1], sinphi))])))

\* One pass of the while loop of Rotor.calc for strip k with inflow estimate
\* vi: the locals it assigns, or the exception it raises.
whileBody(c, k, vi) ==
    IF FMul(c.om, c.rot.rstrip[k]) = 0 THEN [exc |-> "ZeroDivisionError"]
    ELSE IF k > Len(c.rot.twiststrip) THEN [exc |-> "IndexError"]
    ELSE
    With(stripForces(c, k, vi), LAMBDA f :
    With(FMul(FMul(FMul(FMul(4 * SC, pi), c.rho), c.rot.rstrip[k]), Val(c.rot.dR)),
         LAMBDA a :
        IF a = 0 \/ FMul(c.om, c.Ro) = 0 THEN [exc |-> "ZeroDivisionError"]
        ELSE
        LET arg == FMul(25, FMul(c.V, c.V)) + FDiv(f.dT, a)
        IN  With(-FMul(50, c.V) + sqrt(IF arg > 0 THEN arg ELSE 0), LAMBDA vim :
                [exc |-> NoExc, alpha |-> f.alpha, cl |-> f.cl, cd |-> f.cd,
                 dT |-> f.dT, dP |-> f.dP,
                 inflow_err |-> FDiv(Abs(vim - vi), FMul(c.om, c.Ro)),
                 vi |-> FMul(c.relax, vim) + FMul(SC - c.relax, vi)])))

\* The while loop of Rotor.calc for strip k, from state w = [vi, inflow_err,
\* iters, loc, exc]; loc holds the locals alpha, cl, cd, dT, dP, which
\* outlive the loop (None while unbound).
RECURSIVE whileLoop(_, _, _)
whileLoop(c, k, w) ==
    IF w.inflow_err > c.tol /\ w.iters < c.maxiters
    THEN With(whileBody(c, k, w.vi), LAMBDA b :
             IF b.exc # NoExc THEN [w EXCEPT !.exc = b.exc]
             ELSE With([vi |-> b.vi, inflow_err |-> b.inflow_err,
                        iters |-> w.iters + 1,
                        loc |-> Some([alpha |-> b.alpha, cl |-> b.cl, cd |-> b.cd,
                                      dT |-> b.dT, dP |-> b.dP]),
                        exc |-> NoExc],
                       LAMBDA w2 : whileLoop(c, k, w2)))
    ELSE w

\* inflow_err = 1e6 before the while loop
InitialInflowErr == 1000000 * SC

\* A start from the inflow held for the strip before (the strip's own for
\* the first strip).
seedOfNeighbour(rot, k) == rot.inflow[IF k > 1 THEN k - 1 ELSE k]

\* A cold start: every while loop begun from 0 whatever is stored.
seedCold(rot, k) == 0

\* vi = self._inflow[strip]: the estimate the while loop starts from.
seedOf(rot, k) == rot.inflow[k]

\* An "Integrate" block that adds to the thrust and power already stored
\* instead of replacing them.
integrateAccumulating(rot, c) ==
    LET A == FMul(pi, FMul(c.Ro, c.Ro))
        tip == FMul(c.om, c.Ro)
        thrust == (IF rot.thrust = None THEN 0 ELSE Val(rot.thrust)) + Sum(rot.dT)
        power == (IF rot.power = None THEN 0 ELSE Val(rot.power)) + Sum(rot.dP)
        denT == FMul(FMul(c.rho, A), FMul(tip, tip))
        denP == FMul(FMul(c.rho, A), FMul(FMul(tip, tip), tip))
    IN  [rotor |-> [rot EXCEPT !.thrust = Some(thrust), !.power = Some(power),
                               !.CT = Some(IF denT = 0 THEN 0 ELSE FDiv(thrust, denT)),
                               !.CP = Some(IF denP = 0 THEN 0 ELSE FDiv(power, denP))],
         exc |-> IF denT = 0 \/ denP = 0 THEN "ZeroDivisionError" ELSE NoExc]

\* The "Integrate" block, which Rotor.calc runs at the end of every strip:
\* thrust and power are the sums over the whole dT and dP arrays.
integrate(rot, c) ==
    LET A == FMul(pi, FMul(c.Ro, c.Ro))
        tip == FMul(c.om, c.Ro)
        thrust == Sum(rot.dT)
        power == Sum(rot.dP)
        denT == FMul(FMul(c.rho, A), FMul(tip, tip))
        denP == FMul(FMul(c.rho, A), FMul(FMul(tip, tip), tip))
        summed == [rot EXCEPT !.thrust = Some(thrust), !.power = Some(power)]
    IN  IF denT = 0 THEN [rotor |-> summed, exc |-> "ZeroDivisionError"]
        ELSE IF denP = 0
        THEN [rotor |-> [summed EXCEPT !.CT = Some(FDiv(thrust, denT))],
              exc |-> "ZeroDivisionError"]
        ELSE [rotor |-> [summed EXCEPT !.CT = Some(FDiv(thrust, denT)),
                                       !.CP = Some(FDiv(power, denP))],
              exc |-> NoExc]

\* NoCalc: what is observed of a calc that has not processed any strip yet.
\* seeds[k], iters[k], errs[k] are strip k's initial vi, iteration count and
\* final inflow_err; warned lists the strips a warning was printed for; dT
\* and dP list the values the call stored, strip after strip.
NoCalc == [seeds |-> <<>>, iters |-> <<>>, errs |-> <<>>, warned |-> <<>>,
           dT |-> <<>>, dP |-> <<>>]

\* What one strip of the for loop of Rotor.calc does from rotor rot, given
\* the outcome w of its while loop: the rotor it leaves and the exception.
storeStrip(c, k, rot, w) ==
    IF w.exc # NoExc THEN [rotor |-> rot, exc |-> w.exc]
    ELSE IF w.loc = None
    THEN [rotor |-> [rot EXCEPT !.inflow[k] = w.vi], exc |-> "UnboundLocalError"]
    ELSE integrate([rot EXCEPT !.inflow[k] = w.vi,
                               !.alpha[k] = Val(w.loc).alpha,
                               !.cl[k] = Val(w.loc).cl,
                               !.cd[k] = Val(w.loc).cd,
                               !.dT[k] = Val(w.loc).dT,
                               !.dP[k] = Val(w.loc).dP], c)

\* The observations obs extended by strip k's: the warning is printed when
\* the while loop has ended with inflow_err > tol.
observeStrip(c, k, rot, w, obs) ==
    [seeds |-> Append(obs.seeds, seedOf(rot, k)),
     iters |-> Append(obs.iters, w.iters),
     errs |-> Append(obs.errs, w.inflow_err),
     warned |-> IF w.exc = NoExc /\ w.inflow_err > c.tol
                THEN Append(obs.warned, k) ELSE obs.warned,
     dT |-> IF w.exc = NoExc /\ w.loc # None
            THEN Append(obs.dT, Val(w.loc).dT) ELSE obs.dT,
     dP |-> IF w.exc = NoExc /\ w.loc # None
            THEN Append(obs.dP, Val(w.loc).dP) ELSE obs.dP]

\* The for loop of Rotor.calc from strip k on (strip k is Python's strip
\* k-1), with rotor rot, leftover locals loc and observations obs: the rotor
\* it leaves, the observations and the exception that ended it, if any.
RECURSIVE stripLoop(_, _, _, _, _)
stripLoop(c, k, rot, loc, obs) ==
    IF k > Len(rot.rstrip) THEN [rotor |-> rot, obs |-> obs, exc |-> NoExc]
    ELSE IF k > Len(rot.inflow)
    THEN [rotor |-> rot, obs |-> obs, exc |-> "IndexError"]
    ELSE
    With(whileLoop(c, k, [vi |-> seedOf(rot, k),
                          inflow_err |-> InitialInflowErr,
                          iters |-> 0, loc |-> loc, exc |-> NoExc]),
         LAMBDA w :
    With(observeStrip(c, k, rot, w, obs), LAMBDA seen :
    With(storeStrip(c, k, rot, w), LAMBDA st :
        IF st.exc # NoExc
        THEN [rotor |-> st.rotor, obs |-> seen, exc |-> st.exc]
        ELSE stripLoop(c, k + 1, st.rotor, w.loc, seen))))

\* Rotor.calc(rho, V, rpm, theta0, maxiters, tol, relax) on rotor rot with
\* blade bl and airfoil af.
calc(rot, bl, af, rho, V, rpm, theta0, maxiters, tol, relax) ==
    With([rot |-> rot, af |-> af, rho |-> rho, V |-> V, om |-> omega(rpm),
          theta0 |-> theta0, maxiters |-> maxiters, tol |-> tol,
          relax |-> relax, Ro |-> outerRadius(bl)],
         LAMBDA c : stripLoop(c, 1, rot, None, NoCalc))

----------------------------------------------------------------------------
(* vehicle.py *)

\* Vehicle.__init__ with the parameters of record p
VehicleInit(p) ==
    [rw |-> p.wheel_radius, trans |-> p.gear_ratio,
     eta_trans |-> p.gear_efficiency, CDf |-> p.CDf, CDb |-> p.CDb,
     Crr |-> p.Crr, A |-> p.A, m |-> p.m,
     Vvehicle |-> None, Fdrag_aero |-> None, Fdrag_rotor |-> None,
     Frr |-> None]

\* A setSpeed whose value is lost (stored under another attribute).
setSpeedLost(veh, Vvehicle) == veh

\* Vehicle.setSpeed
setSpeed(veh, Vvehicle) == [veh EXCEPT !.Vvehicle = Some(Vvehicle)]

\* The defaults of Rotor.calc's maxiters, tol (1e-12, which is 0 at two
\* decimals) and relax (0.01).  The iteration cap of 5000 is lowered to a
\* bound of the model.
DefaultMaxIters == 3

DefaultTol == 0

DefaultRelax == 1

\* wheel_rps, wheel_rpm and rotor_rpm of computeForces
rotorRpm(veh) ==
    LET wheel_rps == FDiv(Val(veh.Vvehicle), FMul(FMul(2 * SC, pi), veh.rw))
        wheel_rpm == FMul(wheel_rps, 60 * SC)
    IN  FDiv(wheel_rpm, veh.trans)

\* The test with ">=": a rotor at rest would count as turning.
rotorTurnsOrStill(rotor_rpm) == rotor_rpm >= 0

\* the test "rotor_rpm > 0." that guards the solver and the rotor drag
rotorTurns(rotor_rpm) == rotor_rpm > 0

\* The drag with the two coefficients exchanged: CDf for wind from the
\* back, CDb for wind from the front.
aeroDragSwapped(veh, rho, vrel) ==
    IF vrel < 0
    THEN FMul(FMul(FMul(FMul(veh.CDf, 50), rho), FMul(vrel, vrel)), veh.A)
    ELSE FMul(FMul(FMul(FMul(-veh.CDb, 50), rho), FMul(vrel, vrel)), veh.A)

\* the aerodynamic drag force on the body for relative wind vrel
aeroDrag(veh, rho, vrel) ==
    IF vrel < 0
    THEN FMul(FMul(FMul(FMul(veh.CDb, 50), rho), FMul(vrel, vrel)), veh.A)
    ELSE FMul(FMul(FMul(FMul(-veh.CDf, 50), rho), FMul(vrel, vrel)), veh.A)

\* the drag force on the wheels needed to turn the rotor, for rotor power
\* power and rotor speed rotor_om # 0
rotorDrag(veh, power, rotor_om) ==
    LET rotor_torque == FDiv(power, rotor_om)
        wheel_torque == FDiv(rotor_torque, FMul(veh.trans, veh.eta_trans))
    IN  -FDiv(wheel_torque, veh.rw)

\* The rotor forces of computeForces: the solver is run if the rotor turns,
\* otherwise thrust and power are zeroed.  The rotor left, the exception and
\* the solver calls made.
rotorForces(rot, bl, af, rho, vrel, rotor_rpm, theta0) ==
    IF rotorTurns(rotor_rpm)
    THEN With(calc(rot, bl, af, rho, vrel, rotor_rpm, theta0,
                   DefaultMaxIters, DefaultTol, DefaultRelax),
              LAMBDA solved :
                 [rotor |-> solved.rotor, exc |-> solved.exc,
                  calls |-> << [rho |-> rho, V |-> vrel, rpm |-> rotor_rpm,
                                theta0 |-> theta0, maxiters |-> DefaultMaxIters,
                                tol |-> DefaultTol, obs |-> solved.obs,
                                exc |-> solved.exc] >>])
    ELSE [rotor |-> [rot EXCEPT !.thrust = Some(0), !.power = Some(0)],
          exc |-> NoExc, calls |-> <<>>]

\* The rest of computeForces once the rotor forces rf are there: aerodynamic
\* drag, rotor drag, rolling resistance and the mapping returned.
vehicleForces(veh, rf, Vwind, rho, g, rotor_rpm, vrel) ==
    LET veh1 == [veh EXCEPT !.Fdrag_aero = Some(aeroDrag(veh, rho, vrel))]
        rotor_om == omega(rotor_rpm)
    IN  IF rf.exc # NoExc
        THEN [vehicle |-> veh, rotor |-> rf.rotor, forces |-> None,
              exc |-> rf.exc, calls |-> rf.calls]
        ELSE IF rotorTurns(rotor_rpm) /\ rf.rotor.power = None
        THEN [vehicle |-> veh1, rotor |-> rf.rotor, forces |-> None,
              exc |-> "TypeError", calls |-> rf.calls]
        ELSE IF rotorTurns(rotor_rpm) /\ rotor_om = 0
        THEN [vehicle |-> veh1, rotor |-> rf.rotor, forces |-> None,
              exc |-> "ZeroDivisionError", calls |-> rf.calls]
        ELSE
        LET Fdrag_rotor == IF rotorTurns(rotor_rpm)
                           THEN rotorDrag(veh, Val(rf.rotor.power), rotor_om)
                           ELSE 0
            Frr == FMul(FMul(-veh.Crr, veh.m), g)
        IN  [vehicle |-> [veh1 EXCEPT !.Fdrag_rotor = Some(Fdrag_rotor),
                                      !.Frr = Some(Frr)],
             rotor |-> rf.rotor,
             forces |-> Some([rotor_thrust |-> rf.rotor.thrust,
                              aero_drag |-> veh1.Fdrag_aero,
                              rotor_drag |-> Some(Fdrag_rotor),
                              rolling |-> Some(Frr)]),
             exc |-> NoExc, calls |-> rf.calls]

\* Vehicle.computeForces(Vwind, rho, theta0, g) on vehicle veh whose rotor
\* is rot: the vehicle and rotor it leaves, the mapping it returns (None if
\* it raised), the exception, and the solver calls it made.
computeForces(veh, rot, bl, af, Vwind, rho, theta0, g) ==
    IF veh.Vvehicle = None
    THEN [vehicle |-> veh, rotor |-> rot, forces |-> None,
          exc |-> "SystemExit", calls |-> <<>>]
    ELSE With(rotorRpm(veh), LAMBDA rotor_rpm :
         With(Val(veh.Vvehicle) - Vwind, LAMBDA vrel :
         With(rotorForces(rot, bl, af, rho, vrel, rotor_rpm, theta0), LAMBDA rf :
             vehicleForces(veh, rf, Vwind, rho, g, rotor_rpm, vrel))))

----------------------------------------------------------------------------
(* sim.py: the equation of motion; rk4.py *)

\* Arithmetic on state vectors np.array([position, velocity])
VAdd(u, v) == <<u[1] + v[1], u[2] + v[2]>>

VScale(a, v) == <<FMul(a, v[1]), FMul(a, v[2])>>

VTimes(n, v) == <<n * v[1], n * v[2]>>

\* f = sum(forces.values())
netForce(forces) ==
    Val(forces.rotor_thrust) + Val(forces.aero_drag)
        + Val(forces.rotor_drag) + Val(forces.rolling)

\* motion(t, x) with the globals of record gl, on world w = [vehicle, rotor]:
\* xdot (None if it raised), the world it leaves, the exception, the solver
\* calls made and the forces computeForces returned.
motion(gl, w, bl, af, t, x) ==
    With(computeForces(setSpeed(w.vehicle, x[2]), w.rotor, bl, af, gl.Vwind,
                       gl.rho,
                       interp(x[2], gl.v_schedule, gl.collective_schedule),
                       gl.g),
         LAMBDA cf :
            [xdot |-> IF cf.exc = NoExc
                      THEN Some(<<x[2], FDiv(netForce(Val(cf.forces)),
                                             cf.vehicle.m)>>)
                      ELSE None,
             world |-> [vehicle |-> cf.vehicle, rotor |-> cf.rotor],
             exc |-> cf.exc, calls |-> cf.calls, t |-> t, x |-> x,
             forces |-> cf.forces])

\* The update with the four slopes weighted alike.
rkUpdateEqualWeights(y, dt, k1, k2, k3, k4) ==
    VAdd(y, VScale(FDiv(dt, 6 * SC), VAdd(VAdd(k1, k2), VAdd(k3, k4))))

\* self.y + self.dt/6. * (k1 + 2*k2 + 2*k3 + k4)
rkUpdate(y, dt, k1, k2, k3, k4) ==
    VAdd(y, VScale(FDiv(dt, 6 * SC),
                   VAdd(VAdd(k1, VTimes(2, k2)), VAdd(VTimes(2, k3), k4))))

\* What RK4.step returns after the evaluations evals when the last of them
\* raised: the integrator is as it was.
stepRaised(ig, evals) ==
    [integrator |-> ig, world |-> evals[Len(evals)].world, evals |-> evals,
     exc |-> evals[Len(evals)].exc]

\* RK4.step on integrator ig whose func is motion: the integrator and world
\* it leaves, the four evaluations of func in the order made, the exception.
step(ig, gl, w, bl, af) ==
    With(motion(gl, w, bl, af, ig.t, ig.y), LAMBDA e1 :
    IF e1.exc # NoExc THEN stepRaised(ig, <<e1>>) ELSE
    With(motion(gl, e1.world, bl, af, ig.t + FMul(50, ig.dt),
                VAdd(ig.y, VScale(ig.dt, VScale(50, Val(e1.xdot))))),
         LAMBDA e2 :
    IF e2.exc # NoExc THEN stepRaised(ig, <<e1, e2>>) ELSE
    With(motion(gl, e2.world, bl, af, ig.t + FMul(50, ig.dt),
                VAdd(ig.y, VScale(ig.dt, VScale(50, Val(e2.xdot))))),
         LAMBDA e3 :
    IF e3.exc # NoExc THEN stepRaised(ig, <<e1, e2, e3>>) ELSE
    With(motion(gl, e3.world, bl, af, ig.t + ig.dt,
                VAdd(ig.y, VScale(ig.dt, Val(e3.xdot)))),
         LAMBDA e4 :
    IF e4.exc # NoExc THEN stepRaised(ig, <<e1, e2, e3, e4>>) ELSE
    [integrator |->
         [ig EXCEPT !.y = rkUpdate(ig.y, ig.dt, Val(e1.xdot), Val(e2.xdot),
                                   Val(e3.xdot), Val(e4.xdot)),
                    !.t = ig.t + ig.dt],
     world |-> e4.world, evals |-> <<e1, e2, e3, e4>>, exc |-> NoExc]))))

----------------------------------------------------------------------------
(* Configurations and inputs (fixed point, SI-like units) *)

\* bounds of the model
MaxStrips == 2

MaxOps == 4

\* one airfoil table: angles of attack (degrees), Cl, Cd
TableA == [alphas |-> <<-1000, 0, 1000, 2000>>,
           cls |-> <<-100, 0, 100, 120>>,
           cds |-> <<4, 2, 4, 20>>]

\* blade stations: radius, chord, twist (degrees)
Blade0 == [radial |-> <<50, 200>>, chord |-> <<30, 20>>, twist |-> <<2000, 1000>>]

VehicleParams ==
    { [wheel_radius |-> 100, gear_ratio |-> 400, gear_efficiency |-> 85,
       CDf |-> 30, CDb |-> 40, Crr |-> 1, A |-> 200, m |-> 2000],
      [wheel_radius |-> 50, gear_ratio |-> 200, gear_efficiency |-> 85,
       CDf |-> 0, CDb |-> 40, Crr |-> 1, A |-> 200, m |-> 2000],
      [wheel_radius |-> 100, gear_ratio |-> 200, gear_efficiency |-> 90,
       CDf |-> 30, CDb |-> 0, Crr |-> 1, A |-> 200, m |-> 2000] }

Speeds == {-300, 0, 300, 600}

Winds == {300, 600}

Pitches == {0, 500}

Rho0 == 120

Gravity == 981

\* arguments of direct Rotor.calc calls: V, rpm, theta0, maxiters, tol, relax
CalcArgs ==
    { [V |-> 0, rpm |-> 3000, theta0 |-> 500, maxiters |-> 3, tol |-> 0, relax |-> 50],
      [V |-> -300, rpm |-> 3000, theta0 |-> 500, maxiters |-> 3, tol |-> 0, relax |-> 1],
      [V |-> 300, rpm |-> 1500, theta0 |-> 0, maxiters |-> 3, tol |-> 1, relax |-> 50],
      [V |-> 300, rpm |-> 3000, theta0 |-> 0, maxiters |-> 1, tol |-> 50, relax |-> 50],
      [V |-> 0, rpm |-> 1500, theta0 |-> 500, maxiters |-> 0, tol |-> 0, relax |-> 50] }

\* integrator and driver before sim.py's __main__ has built them
IdleIntegrator == [t |-> 0, y |-> <<0, 0>>, dt |-> 0]

IdleSim == [pc |-> "idle"]

\* what is observed of one operation: its name, the exception it raised,
\* its arguments, the value it returned (None if it raised or returns
\* nothing), the Rotor.calc calls made and the func evaluations made, in
\* order
Observed(op, exc, args, ret, calls, evals, nops) ==
    [op |-> op, exc |-> exc, args |-> args, ret |-> ret, calls |-> calls,
     evals |-> evals, nops |-> nops]

----------------------------------------------------------------------------
(* The library driven by any caller: one airfoil, blade, rotor and vehicle *)

Init ==
    /\ airfoil = readTables(<<TableA>>)
    /\ blade = Blade0
    /\ rotor = RotorInit(2)
    /\ \E p \in VehicleParams : vehicle = VehicleInit(p)
    /\ integrator = IdleIntegrator
    /\ sim = IdleSim
    /\ trace = Observed("init", NoExc, <<>>, None, <<>>, <<>>, 0)

Discretize(nstrips) ==
    /\ trace.nops < MaxOps
    /\ \E d \in {discretize(rotor, blade, nstrips)} :
           /\ rotor' = d.rotor
           /\ trace' = Observed("discretize", d.exc, <<nstrips>>, None, <<>>, <<>>,
                                trace.nops + 1)
    /\ UNCHANGED <<airfoil, blade, vehicle, integrator, sim>>

Calc(a) ==
    /\ trace.nops < MaxOps
    /\ \E r \in {calc(rotor, blade, airfoil, Rho0, a.V, a.rpm, a.theta0,
                     a.maxiters, a.tol, a.relax)} :
           /\ rotor' = r.rotor
           /\ trace' = Observed("calc", r.exc, a, None,
                                << [rho |-> Rho0, V |-> a.V, rpm |-> a.rpm,
                                    theta0 |-> a.theta0, maxiters |-> a.maxiters,
                                    tol |-> a.tol, obs |-> r.obs, exc |-> r.exc] >>,
                                <<>>, trace.nops + 1)
    /\ UNCHANGED <<airfoil, blade, vehicle, integrator, sim>>

SetSpeed(Vvehicle) ==
    /\ trace.nops < MaxOps
    /\ vehicle' = setSpeed(vehicle, Vvehicle)
    /\ trace' = Observed("setSpeed", NoExc, <<Vvehicle>>, None, <<>>, <<>>,
                                trace.nops + 1)
    /\ UNCHANGED <<airfoil, blade, rotor, integrator, sim>>

ComputeForces(Vwind, theta0) ==
    /\ trace.nops < MaxOps
    /\ \E cf \in {computeForces(vehicle, rotor, blade, airfoil, Vwind, Rho0,
                                  theta0, Gravity)} :
           /\ vehicle' = cf.vehicle
           /\ rotor' = cf.rotor
           /\ trace' = Observed("computeForces", cf.exc,
                                [Vwind |-> Vwind, rho |-> Rho0,
                                 theta0 |-> theta0, g |-> Gravity],
                                cf.forces, cf.calls, <<>>, trace.nops + 1)
    /\ UNCHANGED <<airfoil, blade, integrator, sim>>

Next ==
    \/ \E n \in 0..MaxStrips : Discretize(n)
    \/ \E a \in CalcArgs : Calc(a)
    \/ \E v \in Speeds : SetSpeed(v)
    \/ \E vw \in Winds, th \in Pitches : ComputeForces(vw, th)

Spec == Init /\ [][Next]_vars

----------------------------------------------------------------------------
(* sim.py __main__: the simulation driver *)

\* bounds of the model: rotor.discretize(100) and maxsteps = 1000, lowered
SimStrips == 2

SimMaxSteps == 4

\* mph2fps = 5280./3600.
mph2fps == 147

\* dt = 0.5
SimDt == 50

\* the Cl and the Cd table of the airfoil, sampled on different angles
ClTable == [alphas |-> <<-1000, 0, 1000, 2000>>, cls |-> <<-100, 0, 100, 120>>]

CdTable == [alphas |-> <<-1000, 0, 2000>>, cds |-> <<4, 2, 20>>]

SimWinds == {200, 300, 400, 600}

SimVehicleParams ==
    { [wheel_radius |-> 100, gear_ratio |-> gr, gear_efficiency |-> 85,
       CDf |-> 30, CDb |-> 40, Crr |-> crr, A |-> 200, m |-> mass] :
      gr \in {200, 400}, crr \in {1, 5}, mass \in {200, 500} }

\* collective pitch (degrees) at the speeds of v_schedule
SimCollectives ==
    { <<0, 200, 400, 600, 800, 900, 900, 900>>,
      <<1000, 1000, 800, 600, 400, 200, 0, 0>> }

\* np.array([0.5, 0.8, 1.0, 1.5, 2.0, 2.2, 2.5, 2.6])*Vwind
vSchedule(Vwind) ==
    [j \in 1..8 |-> FMul(<<50, 80, 100, 150, 200, 220, 250, 260>>[j], Vwind)]

\* the stop test's net force of step j, from the recorded series
net(thrust, fdrag_aero, fdrag_rotor, frolling_resistance, j) ==
    Val(thrust[j]) + Val(fdrag_aero[j]) + Val(fdrag_rotor[j])
        + Val(frolling_resistance[j])

\* The test with "<": a net force of exactly 0 would not end the loop.
maxSpeedReachedStrict(netforce) == netforce < 0

\* "if net <= 0.": the test that ends the loop early
maxSpeedReached(netforce) == netforce <= 0

\* the state of __main__ when the loop is entered
SimStart(Vwind, collective_schedule) ==
    [pc |-> "loop", Vwind |-> Vwind, rho |-> Rho0, g |-> Gravity,
     v_schedule |-> vSchedule(Vwind),
     collective_schedule |-> collective_schedule,
     maxsteps |-> SimMaxSteps, i |-> 0, nevals |-> 0, maxspeed |-> None,
     time |-> <<>>, position |-> <<>>, speed |-> <<>>, theta0 |-> <<>>,
     thrust |-> <<>>, fdrag_aero |-> <<>>, fdrag_rotor |-> <<>>,
     frolling_resistance |-> <<>>]

SimInit ==
    /\ airfoil = readClCdTables(ClTable, CdTable)
    /\ blade = Blade0
    /\ rotor = discretize(RotorInit(2), Blade0, SimStrips).rotor
    /\ \E p \in SimVehicleParams : vehicle = VehicleInit(p)
    /\ \E Vwind \in SimWinds, cs \in SimCollectives :
           /\ sim = SimStart(Vwind, cs)
           /\ integrator = [t |-> 0, y |-> <<0, FMul(50, Vwind)>>, dt |-> SimDt]
    /\ trace = Observed("init", NoExc, <<>>, None, <<>>, <<>>, 0)

\* A pass that records the speed the vehicle holds, not integrator.y[1].
recordStepVehicleSpeed(sm, s) ==
    With([sm EXCEPT
             !.i = @ + 1,
             !.nevals = @ + Len(s.evals),
             !.time = Append(@, s.integrator.t),
             !.position = Append(@, s.integrator.y[1]),
             !.speed = Append(@, FDiv(Val(s.world.vehicle.Vvehicle), mph2fps)),
             !.theta0 = Append(@, interp(s.integrator.y[2], sm.v_schedule,
                                         sm.collective_schedule)),
             !.thrust = Append(@, s.world.rotor.thrust),
             !.fdrag_aero = Append(@, s.world.vehicle.Fdrag_aero),
             !.fdrag_rotor = Append(@, s.world.vehicle.Fdrag_rotor),
             !.frolling_resistance = Append(@, s.world.vehicle.Frr)],
         LAMBDA r :
            IF maxSpeedReached(net(r.thrust, r.fdrag_aero, r.fdrag_rotor,
                                   r.frolling_resistance, r.i))
            THEN [r EXCEPT !.pc = "plot", !.maxspeed = Some(r.i)]
            ELSE IF r.i = r.maxsteps THEN [r EXCEPT !.pc = "plot"]
            ELSE r)

\* what one pass of the loop records once integrator.step() has returned s,
\* and whether the loop goes on
recordStep(sm, s) ==
    With([sm EXCEPT
             !.i = @ + 1,
             !.nevals = @ + Len(s.evals),
             !.time = Append(@, s.integrator.t),
             !.position = Append(@, s.integrator.y[1]),
             !.speed = Append(@, FDiv(s.integrator.y[2], mph2fps)),
             !.theta0 = Append(@, interp(s.integrator.y[2], sm.v_schedule,
                                         sm.collective_schedule)),
             !.thrust = Append(@, s.world.rotor.thrust),
             !.fdrag_aero = Append(@, s.world.vehicle.Fdrag_aero),
             !.fdrag_rotor = Append(@, s.world.vehicle.Fdrag_rotor),
             !.frolling_resistance = Append(@, s.world.vehicle.Frr)],
         LAMBDA r :
            IF maxSpeedReached(net(r.thrust, r.fdrag_aero, r.fdrag_rotor,
                                   r.frolling_resistance, r.i))
            THEN [r EXCEPT !.pc = "plot", !.maxspeed = Some(r.i)]
            ELSE IF r.i = r.maxsteps THEN [r EXCEPT !.pc = "plot"]
            ELSE r)

\* one pass of "for i in range(maxsteps)"
SimStep ==
    /\ sim.pc = "loop"
    /\ sim.i < sim.maxsteps
    /\ \E s \in {step(integrator, sim, [vehicle |-> vehicle, rotor |-> rotor],
                      blade, airfoil)} :
           /\ integrator' = s.integrator
           /\ vehicle' = s.world.vehicle
           /\ rotor' = s.world.rotor
           /\ sim' = IF s.exc # NoExc
                     THEN [sim EXCEPT !.pc = "raised",
                                      !.nevals = @ + Len(s.evals)]
                     ELSE recordStep(sim, s)
           /\ trace' = Observed("step", s.exc, <<>>, None,
                                [j \in 1..Len(s.evals) |-> s.evals[j].calls],
                                [j \in 1..Len(s.evals) |->
                                    [t |-> s.evals[j].t, x |-> s.evals[j].x,
                                     xdot |-> s.evals[j].xdot,
                                     forces |-> s.evals[j].forces]],
                                trace.nops + 1)
    /\ UNCHANGED <<airfoil, blade>>

SimNext == SimStep

SimSpec == SimInit /\ [][SimNext]_vars

----------------------------------------------------------------------------
(* The airfoil on its own: tables are read, Cl and Cd are queried *)

\* a second table, on other angles
TableB == [alphas |-> <<-500, 0, 500, 1500>>,
           cls |-> <<-50, 0, 60, 110>>,
           cds |-> <<6, 2, 6, 30>>]

\* table t with c added to every Cl and every Cd
Shifted(t, c) ==
    [alphas |-> t.alphas,
     cls |-> [i \in 1..Len(t.cls) |-> t.cls[i] + c],
     cds |-> [i \in 1..Len(t.cds) |-> t.cds[i] + c]]

\* offsets: even multiples of the resolution, so that c/2 is representable
Offsets == {-20, 20, 40}

TableLists ==
    {<<t>> : t \in {TableA, TableB}}
        \cup {<<t, t>> : t \in {TableA, TableB}}
        \cup {<<t, Shifted(t, c)>> : t \in {TableA, TableB}, c \in Offsets}
        \cup {<<TableA, TableB>>}

QueryAlphas == {-1500, -1000, -300, 0, 250, 700, 1000, 1730, 2000, 2500}

AirfoilSpecInit ==
    /\ airfoil = AirfoilInit
    /\ blade = Blade0
    /\ rotor = RotorInit(2)
    /\ vehicle = VehicleInit(CHOOSE p \in VehicleParams : p.CDf > 0 /\ p.CDb > 0)
    /\ integrator = IdleIntegrator
    /\ sim = IdleSim
    /\ trace = Observed("init", NoExc, <<>>, None, <<>>, <<>>, 0)

ReadTables(tables) ==
    /\ airfoil' = readTables(tables)
    /\ trace' = Observed("readTables", NoExc, tables, None, <<>>, <<>>, 0)
    /\ UNCHANGED <<blade, rotor, vehicle, integrator, sim>>

\* foil.Cl(alpha); len(None) raises before any table is read
QueryCl(alpha) ==
    /\ trace' = IF airfoil.alphas = None
                THEN Observed("Cl", "TypeError", <<alpha>>, None, <<>>, <<>>, 0)
                ELSE Observed("Cl", NoExc, <<alpha>>, Some(Cl(airfoil, alpha)),
                              <<>>, <<>>, 0)
    /\ UNCHANGED <<airfoil, blade, rotor, vehicle, integrator, sim>>

\* foil.Cd(alpha)
QueryCd(alpha) ==
    /\ trace' = IF airfoil.alphas = None
                THEN Observed("Cd", "TypeError", <<alpha>>, None, <<>>, <<>>, 0)
                ELSE Observed("Cd", NoExc, <<alpha>>, Some(Cd(airfoil, alpha)),
                              <<>>, <<>>, 0)
    /\ UNCHANGED <<airfoil, blade, rotor, vehicle, integrator, sim>>

AirfoilNext ==
    \/ \E tables \in TableLists : ReadTables(tables)
    \/ \E alpha \in QueryAlphas : QueryCl(alpha)
    \/ \E alpha \in QueryAlphas : QueryCd(alpha)

AirfoilSpec == AirfoilSpecInit /\ [][AirfoilNext]_vars

----------------------------------------------------------------------------
(* Properties of the library (Spec) *)

\* C1: in computeForces the solver is invoked if and only if the derived
\* rotor rpm is strictly positive, and then with that rpm; when the rpm is
\* <= 0 the solver is not invoked, the call returns normally, the rotor's
\* thrust and power are 0 and the rotor drag stored and returned is 0.  So
\* Rotor.calc is never entered from computeForces with rpm <= 0.
C1_SolverOnlyWhenRotorTurns ==
    (trace.op = "computeForces" /\ trace.exc # "SystemExit") =>
        LET rotor_rpm == rotorRpm(vehicle)
        IN  /\ Len(trace.calls) <= 1
            /\ (Len(trace.calls) = 1) <=> (rotor_rpm > 0)
            /\ \A j \in 1..Len(trace.calls) :
                   /\ trace.calls[j].rpm = rotor_rpm
                   /\ trace.calls[j].rpm > 0
                   /\ trace.calls[j].V = Val(vehicle.Vvehicle) - trace.args.Vwind
                   /\ trace.calls[j].theta0 = trace.args.theta0
            /\ (rotor_rpm <= 0) =>
                   /\ trace.exc = NoExc
                   /\ rotor.thrust = Some(0)
                   /\ rotor.power = Some(0)
                   /\ vehicle.Fdrag_rotor = Some(0)
                   /\ Val(trace.ret).rotor_drag = Some(0)
                   /\ Val(trace.ret).rotor_thrust = Some(0)

\* C1 happens: a rotor that an earlier calc left with loads is zeroed by a
\* computeForces at a speed that does not turn it.
C1_StillRotorZeroed ==
    /\ trace.op = "computeForces"
    /\ trace.exc = NoExc
    /\ trace.calls = <<>>
    /\ rotorRpm(vehicle) <= 0
    /\ Len(rotor.dT) >= 1
    /\ Sum(rotor.dT) # 0
    /\ rotor.thrust = Some(0)

\* C2: computeForces on a vehicle whose speed was never set aborts
\* (SystemExit) before anything else: no solver call, nothing returned,
\* vehicle and rotor as they were; a vehicle's speed is set from the first
\* setSpeed on, and computeForces on such a vehicle never aborts this way.
C2_AbortsOnlyWithoutSpeed ==
    /\ [][(trace'.op = "computeForces") =>
             IF vehicle.Vvehicle = None
             THEN /\ trace'.exc = "SystemExit"
                  /\ trace'.calls = <<>>
                  /\ trace'.ret = None
                  /\ vehicle' = vehicle
                  /\ rotor' = rotor
             ELSE trace'.exc # "SystemExit"]_vars
    /\ [][(trace'.op = "setSpeed") =>
             vehicle'.Vvehicle = Some(trace'.args[1])]_vars
    /\ [][(vehicle.Vvehicle # None) => (vehicle'.Vvehicle # None)]_vars
    /\ [][(vehicle.Vvehicle = None /\ trace'.op # "setSpeed") =>
             (vehicle'.Vvehicle = None)]_vars

\* C2 happens: a computeForces aborted on a vehicle without speed whose
\* rotor had already been solved.
C2_AbortedWithSolvedRotor ==
    /\ trace.op = "computeForces"
    /\ trace.exc = "SystemExit"
    /\ trace.ret = None
    /\ vehicle.Vvehicle = None
    /\ rotor.thrust # None
    /\ Val(rotor.thrust) # 0

\* The geometry and per-strip arrays of rot agree on N >= 1 strips, as after
\* one discretize(N) on a new rotor.
Discretized(rot) ==
    /\ Len(rot.rstrip) >= 1
    /\ Len(rot.chordstrip) = Len(rot.rstrip)
    /\ Len(rot.twiststrip) = Len(rot.rstrip)
    /\ Len(rot.inflow) = Len(rot.rstrip)

\* C4: in Rotor.calc, for every strip, every cap maxiters >= 0 and every
\* tol, the while loop makes at most maxiters passes and has stopped only
\* with inflow_err <= tol or at the cap; the warning is printed for a strip
\* if and only if its loop ended with inflow_err > tol; and a call that
\* printed a warning does not raise: it processes every strip and leaves the
\* aggregates.
C4_CapReachedIsNotFatal ==
    (trace.op = "calc" /\ Discretized(rotor)) =>
        LET c == trace.calls[1]
            done == Len(c.obs.iters)
            ended(k) == k < done \/ c.exc \in {NoExc, "UnboundLocalError"}
        IN  /\ c.maxiters >= 0
            /\ \A k \in 1..done :
                   /\ c.obs.iters[k] <= c.maxiters
                   /\ ended(k) =>
                          /\ (c.obs.errs[k] > c.tol) => (c.obs.iters[k] = c.maxiters)
                          /\ (\E j \in 1..Len(c.obs.warned) : c.obs.warned[j] = k)
                                 <=> (c.obs.errs[k] > c.tol)
            /\ (c.obs.warned # <<>>) =>
                   /\ c.exc = NoExc
                   /\ done = Len(rotor.rstrip)
                   /\ rotor.thrust # None
                   /\ rotor.power # None

\* C5: every while loop of a calc starts from the inflow the rotor holds for
\* that strip when the call is made; a discretize(N) leaves N zeros; and no
\* operation other than a discretize or one that runs the solver changes
\* the inflow array (a computeForces that skips the solver included).
C5_WarmStart ==
    /\ [][(trace'.op \in {"calc", "computeForces"}) =>
             \A j \in 1..Len(trace'.calls) :
                 /\ Len(trace'.calls[j].obs.seeds) <= Len(rotor.inflow)
                 /\ \A k \in 1..Len(trace'.calls[j].obs.seeds) :
                        trace'.calls[j].obs.seeds[k] = rotor.inflow[k]
                 /\ (trace'.calls[j].exc = NoExc) =>
                        Len(trace'.calls[j].obs.seeds) = Len(rotor.inflow)]_vars
    /\ [][(trace'.op = "discretize" /\ trace'.exc = NoExc) =>
             rotor'.inflow = [k \in 1..trace'.args[1] |-> 0]]_vars
    /\ [][(trace'.calls = <<>> /\ ~(trace'.op = "discretize" /\ trace'.exc = NoExc)) =>
             rotor'.inflow = rotor.inflow]_vars

\* C5 happens: a calc on two strips started both loops from the non-zero
\* inflows an earlier calc had stored.
C5_SeededByEarlierCalc ==
    /\ trace.op = "calc"
    /\ trace.exc = NoExc
    /\ Len(trace.calls[1].obs.seeds) = 2
    /\ trace.calls[1].obs.seeds[1] # 0
    /\ trace.calls[1].obs.seeds[2] # 0
    /\ rotor.inflow # trace.calls[1].obs.seeds

\* C7: after a calc that returns normally on a rotor of N >= 1 strips, the
\* call has stored N values of dT and of dP, these are the rotor's dT and dP
\* arrays, thrust and power are their sums, and CT = thrust/(rho*A*(om*Ro)^2),
\* CP = power/(rho*A*(om*Ro)^3) with A = pi*Ro^2.
C7_AggregatesAreSumsOfThisCall ==
    ( /\ trace.op \in {"calc", "computeForces"}
      /\ Len(trace.calls) = 1
      /\ Len(rotor.rstrip) >= 1 ) =>
        LET c == trace.calls[1]
            Ro == outerRadius(blade)
            A == FMul(pi, FMul(Ro, Ro))
            tip == FMul(omega(c.rpm), Ro)
        IN  (c.exc = NoExc) =>
                /\ Len(c.obs.dT) = Len(rotor.rstrip)
                /\ Len(c.obs.dP) = Len(rotor.rstrip)
                /\ rotor.dT = c.obs.dT
                /\ rotor.dP = c.obs.dP
                /\ rotor.thrust = Some(Sum(c.obs.dT))
                /\ rotor.power = Some(Sum(c.obs.dP))
                /\ rotor.CT = Some(FDiv(Sum(c.obs.dT),
                                        FMul(FMul(c.rho, A), FMul(tip, tip))))
                /\ rotor.CP = Some(FDiv(Sum(c.obs.dP),
                                        FMul(FMul(c.rho, A),
                                             FMul(FMul(tip, tip), tip))))

\* C7 happens: a calc on two strips that followed an earlier calc (its seeds
\* are that call's inflows) returned with non-zero thrust and power.
C7_SecondCalcAggregated ==
    /\ trace.op = "calc"
    /\ trace.exc = NoExc
    /\ Len(rotor.rstrip) = 2
    /\ trace.calls[1].obs.seeds[1] # 0
    /\ rotor.thrust # Some(0)
    /\ rotor.power # Some(0)
    /\ rotor.dT[1] # rotor.dT[2]

\* vrel of the computeForces just made
RelativeWind == Val(vehicle.Vvehicle) - trace.args.Vwind

\* the aerodynamic drag the computeForces just made returned
ReturnedAeroDrag == Val(Val(trace.ret).aero_drag)

\* The force law of C9: -CDf*0.5*rho*vrel^2*A for vrel >= 0,
\* CDb*0.5*rho*vrel^2*A for vrel < 0; the value returned is the value stored.
AeroDragLaw ==
    LET vrel == RelativeWind
        q == FMul(vrel, vrel)
    IN  /\ vehicle.Fdrag_aero = Some(ReturnedAeroDrag)
        /\ (vrel >= 0) =>
               /\ ReturnedAeroDrag =
                      FMul(FMul(FMul(FMul(-vehicle.CDf, 50), trace.args.rho), q),
                           vehicle.A)
               /\ ReturnedAeroDrag <= 0
        /\ (vrel < 0) =>
               /\ ReturnedAeroDrag =
                      FMul(FMul(FMul(FMul(vehicle.CDb, 50), trace.args.rho), q),
                           vehicle.A)
               /\ ReturnedAeroDrag >= 0

\* C9 as stated: the force law, and for non-negative coefficients, density
\* and area the drag is 0 exactly when vrel = 0.
C9_DragZeroExactlyAtRest ==
    (trace.op = "computeForces" /\ trace.exc = NoExc) =>
        /\ AeroDragLaw
        /\ (vehicle.CDf >= 0 /\ vehicle.CDb >= 0 /\ trace.args.rho >= 0
                /\ vehicle.A >= 0) =>
               /\ Sgn(ReturnedAeroDrag) * Sgn(RelativeWind) <= 0
               /\ (ReturnedAeroDrag = 0) <=> (RelativeWind = 0)

\* C9, amended: the force law; for non-negative coefficients, density and
\* area the drag never has the sign of vrel and is 0 when vrel = 0; and when
\* the coefficient of the branch taken, the density and the area are
\* strictly positive it is 0 only when vrel = 0.
C9_DragOpposesRelativeWind ==
    (trace.op = "computeForces" /\ trace.exc = NoExc) =>
        /\ AeroDragLaw
        /\ (vehicle.CDf >= 0 /\ vehicle.CDb >= 0 /\ trace.args.rho >= 0
                /\ vehicle.A >= 0) =>
               /\ Sgn(ReturnedAeroDrag) * Sgn(RelativeWind) <= 0
               /\ (RelativeWind = 0) => (ReturnedAeroDrag = 0)
        /\ ( /\ (IF RelativeWind < 0 THEN vehicle.CDb ELSE vehicle.CDf) > 0
             /\ trace.args.rho > 0
             /\ vehicle.A > 0
             /\ ReturnedAeroDrag = 0 ) => (RelativeWind = 0)

\* C9 happens: a vehicle slower than the wind is pushed forward by the drag
\* on its back, computed with a CDb that differs from its CDf.
C9_PushedByTailwind ==
    /\ trace.op = "computeForces"
    /\ trace.exc = NoExc
    /\ RelativeWind < 0
    /\ ReturnedAeroDrag > 0
    /\ vehicle.CDb # vehicle.CDf

\* C10: the rotor drag returned by computeForces is <= 0, whatever the sign
\* of the power the solver produced.
C10_RotorDragNeverPushes ==
    (trace.op = "computeForces" /\ trace.exc = NoExc) =>
        Val(Val(trace.ret).rotor_drag) <= 0

\* C11: a discretize(N) that returns leaves exactly N strips: the radius,
\* chord, twist, inflow, alpha, cl, cd, dT and dP arrays all have length N
\* and the radii are the centers Ri + (k + 0.5)*dR, k = 0..N-1, with
\* dR = (Ro - Ri)/N; and a calc never indexes outside a per-strip array.
C11_ExactlyNStripsAfterDiscretize ==
    /\ (trace.op = "discretize" /\ trace.exc = NoExc) =>
           LET N == trace.args[1]
               Ri == innerRadius(blade)
               dR == FDivInt(outerRadius(blade) - Ri, N)
           IN  /\ rotor.dR = Some(dR)
               /\ rotor.rstrip = [k \in 1..N |-> Ri + FMul((k - 1) * SC + 50, dR)]
               /\ Len(rotor.chordstrip) = N
               /\ Len(rotor.twiststrip) = N
               /\ Len(rotor.inflow) = N
               /\ Len(rotor.alpha) = N
               /\ Len(rotor.cl) = N
               /\ Len(rotor.cd) = N
               /\ Len(rotor.dT) = N
               /\ Len(rotor.dP) = N
    /\ (trace.op \in {"calc", "computeForces"}) =>
           \A j \in 1..Len(trace.calls) : trace.calls[j].exc # "IndexError"

\* The for loop of Rotor.calc with its strips taken in the order given by
\* the sequence order instead of 1, 2, ..: what stripLoop does, strip order[j]
\* being the j-th processed.
RECURSIVE stripLoopIn(_, _, _, _, _, _)
stripLoopIn(c, order, j, rot, loc, obs) ==
    IF j > Len(order) THEN [rotor |-> rot, obs |-> obs, exc |-> NoExc]
    ELSE IF order[j] > Len(rot.inflow)
    THEN [rotor |-> rot, obs |-> obs, exc |-> "IndexError"]
    ELSE
    With(whileLoop(c, order[j], [vi |-> seedOf(rot, order[j]),
                                 inflow_err |-> InitialInflowErr,
                                 iters |-> 0, loc |-> loc, exc |-> NoExc]),
         LAMBDA w :
    With(observeStrip(c, order[j], rot, w, obs), LAMBDA seen :
    With(storeStrip(c, order[j], rot, w), LAMBDA st :
        IF st.exc # NoExc
        THEN [rotor |-> st.rotor, obs |-> seen, exc |-> st.exc]
        ELSE stripLoopIn(c, order, j + 1, st.rotor, w.loc, seen))))

\* the orders in which n strips can be processed
Orders(n) ==
    {o \in [1..n -> 1..n] : \A a, b \in 1..n : (o[a] = o[b]) => (a = b)}

\* the locals of Rotor.calc for call record call, made by operation op with
\* arguments args on rotor rot
CallContext(call, op, args, rot) ==
    [rot |-> rot, af |-> airfoil, rho |-> call.rho, V |-> call.V,
     om |-> omega(call.rpm), theta0 |-> call.theta0,
     maxiters |-> call.maxiters, tol |-> call.tol,
     relax |-> IF op = "calc" THEN args.relax ELSE DefaultRelax,
     Ro |-> outerRadius(blade)]

\* strip k of rot solved on its own: the while loop run from the strip's own
\* stored inflow with no local bound
StripAlone(c, k, rot) ==
    whileLoop(c, k, [vi |-> rot.inflow[k], inflow_err |-> InitialInflowErr,
                     iters |-> 0, loc |-> None, exc |-> NoExc])

\* C12: in one calc (direct or from computeForces) each strip k for which
\* values are stored gets the inflow, alpha, cl, cd, dT, dP of strip k solved
\* on its own from the call's arguments, its own geometry and its own
\* previous inflow; the entries of every other strip are as they were; and
\* on a rotor whose per-strip arrays agree in length, processing the strips
\* in any order leaves the same rotor (per-strip arrays, thrust, power, CT,
\* CP) and ends the same way.
C12_StripsDoNotInteract ==
    [][(trace'.op \in {"calc", "computeForces"} /\ Len(trace'.calls) = 1) =>
          LET call == trace'.calls[1]
              c == CallContext(call, trace'.op, trace'.args, rotor)
              stored == Len(call.obs.dT)
          IN  /\ stored <= Len(rotor.inflow)
              /\ \A k \in 1..stored :
                     \E w \in {StripAlone(c, k, rotor)} :
                         /\ w.loc # None
                         /\ rotor'.inflow[k] = w.vi
                         /\ rotor'.alpha[k] = Val(w.loc).alpha
                         /\ rotor'.cl[k] = Val(w.loc).cl
                         /\ rotor'.cd[k] = Val(w.loc).cd
                         /\ rotor'.dT[k] = Val(w.loc).dT
                         /\ rotor'.dP[k] = Val(w.loc).dP
              /\ \A k \in (stored + 1)..Len(rotor.inflow) :
                     /\ rotor'.inflow[k] = rotor.inflow[k]
                     /\ rotor'.alpha[k] = rotor.alpha[k]
                     /\ rotor'.cl[k] = rotor.cl[k]
                     /\ rotor'.cd[k] = rotor.cd[k]
                     /\ rotor'.dT[k] = rotor.dT[k]
                     /\ rotor'.dP[k] = rotor.dP[k]
              /\ Discretized(rotor) =>
                     \A order \in Orders(Len(rotor.rstrip)) :
                         \E r \in {stripLoopIn(c, order, 1, rotor, None, NoCalc)} :
                             /\ r.rotor = rotor'
                             /\ r.exc = call.exc]_vars

\* C12 happens: a calc on two strips that followed an earlier calc returned
\* with both strips rewritten, to different values.
C12_TwoStripsResolved ==
    /\ trace.op = "calc"
    /\ trace.exc = NoExc
    /\ Len(rotor.rstrip) = 2
    /\ Len(trace.calls[1].obs.dT) = 2
    /\ trace.calls[1].obs.seeds[2] # 0
    /\ rotor.inflow[1] # rotor.inflow[2]
    /\ rotor.inflow[2] # trace.calls[1].obs.seeds[2]

----------------------------------------------------------------------------
(* Properties of the simulation driver (SimSpec) *)

\* C3: a step() that returns evaluates func four times, at (t, y),
\* (t + dt/2, y + dt/2*k1), (t + dt/2, y + dt/2*k2), (t + dt, y + dt*k3) in
\* this order, k1..k4 being the values returned, then y becomes
\* y + dt/6*(k1 + 2*k2 + 2*k3 + k4) and t becomes t + dt, dt staying as it
\* is; so after n steps t = t0 + n*dt (t0 = 0) and func has been evaluated
\* 4n times.
C3_StepIsClassicalRK4 ==
    /\ [][(trace'.op = "step" /\ trace'.exc = NoExc) =>
             LET e == trace'.evals
                 t == integrator.t
                 y == integrator.y
                 dt == integrator.dt
                 k(j) == Val(e[j].xdot)
                 half(v) == <<FMul(FMul(50, v[1]), dt), FMul(FMul(50, v[2]), dt)>>
                 whole(v) == <<FMul(v[1], dt), FMul(v[2], dt)>>
                 slopes == <<k(1)[1] + 2 * k(2)[1] + 2 * k(3)[1] + k(4)[1],
                             k(1)[2] + 2 * k(2)[2] + 2 * k(3)[2] + k(4)[2]>>
             IN  /\ Len(e) = 4
                 /\ Len(trace'.calls) = 4
                 /\ e[1].t = t /\ e[1].x = y
                 /\ e[2].t = t + FMul(50, dt)
                 /\ e[2].x = <<y[1] + half(k(1))[1], y[2] + half(k(1))[2]>>
                 /\ e[3].t = t + FMul(50, dt)
                 /\ e[3].x = <<y[1] + half(k(2))[1], y[2] + half(k(2))[2]>>
                 /\ e[4].t = t + dt
                 /\ e[4].x = <<y[1] + whole(k(3))[1], y[2] + whole(k(3))[2]>>
                 /\ integrator'.y = <<y[1] + FMul(FDiv(dt, 6 * SC), slopes[1]),
                                      y[2] + FMul(FDiv(dt, 6 * SC), slopes[2])>>
                 /\ integrator'.t = t + dt
                 /\ integrator'.dt = dt
                 /\ sim'.nevals = sim.nevals + 4]_vars
    /\ []((sim.pc \in {"loop", "plot"}) =>
             /\ integrator.t = sim.i * integrator.dt
             /\ sim.nevals = 4 * sim.i)

\* C3 happens: a second step has returned, whose first two slopes differ.
C3_SecondStepTaken ==
    /\ trace.op = "step"
    /\ trace.exc = NoExc
    /\ sim.i = 2
    /\ Len(trace.evals) = 4
    /\ trace.evals[1].xdot # trace.evals[2].xdot
    /\ trace.evals[2].xdot # trace.evals[3].xdot

\* the net force recorded after step j
RecordedNet(j) ==
    Val(sim.thrust[j]) + Val(sim.fdrag_aero[j]) + Val(sim.fdrag_rotor[j])
        + Val(sim.frolling_resistance[j])

\* C6: the driver has taken sim.i <= maxsteps steps and recorded each; the
\* net force recorded after every step but the last taken was > 0; while the
\* loop goes on the last one was > 0 too, fewer than maxsteps steps are
\* taken and no maximum speed is reported; once it has ended, either the
\* last step's net force is <= 0 and that step is reported as the
\* maximum-speed step, or maxsteps steps are taken without such a step and
\* none is reported.
C6_StopsAtFirstNonPositiveNet ==
    (sim.pc \in {"loop", "plot"}) =>
        /\ sim.i <= sim.maxsteps
        /\ Len(sim.time) = sim.i
        /\ Len(sim.thrust) = sim.i
        /\ Len(sim.fdrag_aero) = sim.i
        /\ Len(sim.fdrag_rotor) = sim.i
        /\ Len(sim.frolling_resistance) = sim.i
        /\ \A j \in 1..(sim.i - 1) : RecordedNet(j) > 0
        /\ (sim.pc = "loop") =>
               /\ sim.i < sim.maxsteps
               /\ sim.maxspeed = None
               /\ (sim.i >= 1) => (RecordedNet(sim.i) > 0)
        /\ (sim.pc = "plot") =>
               /\ sim.i >= 1
               /\ IF RecordedNet(sim.i) <= 0
                  THEN sim.maxspeed = Some(sim.i)
                  ELSE sim.i = sim.maxsteps /\ sim.maxspeed = None

\* C6 happens: the loop ended at its third step, the first whose recorded
\* net force was not positive.
C6_StoppedAtThirdStep ==
    /\ sim.pc = "plot"
    /\ sim.i = 3
    /\ sim.i < sim.maxsteps
    /\ sim.maxspeed = Some(3)
    /\ RecordedNet(3) <= 0
    /\ RecordedNet(2) > 0

\* C13: after a step() that returns, the speed the vehicle holds is the one
\* of the fourth evaluation, y[1] + dt*k3[1], and the vehicle's stored drag
\* and rolling resistance and the rotor's thrust are the forces that
\* evaluation's computeForces returned; these are what the driver records
\* for the step and what its stop test adds up, no further computeForces
\* being made; the speed and the pitch command recorded for the step come
\* from the post-step integrator.y.
C13_RecordsStageFourForces ==
    [][(trace'.op = "step" /\ trace'.exc = NoExc) =>
          LET e == trace'.evals
              last == Val(e[4].forces)
              i == sim'.i
              total == Val(last.rotor_thrust) + Val(last.aero_drag)
                           + Val(last.rotor_drag) + Val(last.rolling)
          IN  /\ Len(e) = 4
              /\ Len(trace'.calls) = 4
              /\ e[4].x[2] = integrator.y[2] + FMul(Val(e[3].xdot)[2], integrator.dt)
              /\ vehicle'.Vvehicle = Some(e[4].x[2])
              /\ rotor'.thrust = last.rotor_thrust
              /\ vehicle'.Fdrag_aero = last.aero_drag
              /\ vehicle'.Fdrag_rotor = last.rotor_drag
              /\ vehicle'.Frr = last.rolling
              /\ i = sim.i + 1
              /\ sim'.thrust[i] = last.rotor_thrust
              /\ sim'.fdrag_aero[i] = last.aero_drag
              /\ sim'.fdrag_rotor[i] = last.rotor_drag
              /\ sim'.frolling_resistance[i] = last.rolling
              /\ (sim'.maxspeed = Some(i)) <=> (total <= 0)
              /\ (sim'.pc = "loop") => (total > 0)
              /\ sim'.time[i] = integrator'.t
              /\ sim'.position[i] = integrator'.y[1]
              /\ sim'.speed[i] = FDiv(integrator'.y[2], mph2fps)
              /\ sim'.theta0[i] = interp(integrator'.y[2], sim.v_schedule,
                                         sim.collective_schedule)]_vars

\* C13 happens: after a second step the vehicle holds the speed of the
\* fourth evaluation, which is not the post-step speed that was recorded,
\* and the thrust recorded is the one that evaluation returned.
C13_StageFourDiffersFromPostStep ==
    /\ trace.op = "step"
    /\ trace.exc = NoExc
    /\ sim.i = 2
    /\ vehicle.Vvehicle = Some(trace.evals[4].x[2])
    /\ Val(vehicle.Vvehicle) # integrator.y[2]
    /\ sim.speed[2] # FDiv(Val(vehicle.Vvehicle), mph2fps)
    /\ sim.thrust[2] = Val(trace.evals[4].forces).rotor_thrust

----------------------------------------------------------------------------
(* Properties of the airfoil (AirfoilSpec) *)

\* the value of table i of the loaded airfoil at the angle just queried
TableValue(i) ==
    interp(trace.args[1], airfoil.alphas[i],
           IF trace.op = "Cl" THEN airfoil.cls[i] ELSE airfoil.cds[i])

\* the coefficients queried, of table i
TableColumn(i) == IF trace.op = "Cl" THEN airfoil.cls[i] ELSE airfoil.cds[i]

\* C8: Cl(alpha) and Cd(alpha) return the mean over the loaded tables of
\* each table's own clamped interpolation at alpha (to the resolution); for
\* two identical tables that is the single table's value, and for two tables
\* on the same angles whose coefficients differ by a constant c it is the
\* first table's value plus c/2, inside and outside the sampled range.
C8_MeanOfPerTableInterpolation ==
    (trace.op \in {"Cl", "Cd"} /\ trace.exc = NoExc) =>
        LET n == Len(airfoil.alphas)
            value == Val(trace.ret)
            total == Sum([i \in 1..n |-> TableValue(i)])
        IN  /\ 2 * Abs(n * value - total) <= n
            /\ (n = 1) => (value = TableValue(1))
            /\ (n = 2 /\ airfoil.alphas[1] = airfoil.alphas[2]
                      /\ TableColumn(1) = TableColumn(2)) =>
                   (value = TableValue(1))
            /\ (n = 2 /\ airfoil.alphas[1] = airfoil.alphas[2]) =>
                   \A c \in {TableColumn(2)[1] - TableColumn(1)[1]} :
                       (\A i \in 1..Len(TableColumn(1)) :
                            TableColumn(2)[i] = TableColumn(1)[i] + c) =>
                           (2 * value = 2 * TableValue(1) + c)

\* C8 happens: Cd was queried beyond the last sampled angle on two tables
\* that differ by a non-zero constant.
C8_OffsetTablesQueriedOutside ==
    /\ trace.op = "Cd"
    /\ trace.exc = NoExc
    /\ Len(airfoil.alphas) = 2
    /\ airfoil.alphas[1] = airfoil.alphas[2]
    /\ \A i \in 1..Len(airfoil.cds[1]) : airfoil.cds[2][i] = airfoil.cds[1][i] + 20
    /\ trace.args[1] > airfoil.alphas[1][Len(airfoil.alphas[1])]
    /\ Val(trace.ret) = TableValue(1) + 10

====
